---- MODULE Spec2Model ----
(***************************************************************************)
(* Style model (src/src/style.rs) and gauge widgets                        *)
(* (src/src/widgets/gauge.rs) of the terminal UI toolkit.                  *)
(*                                                                         *)
(* A Style is a record [fg, bg, add_modifier, sub_modifier]; an            *)
(* Option<Color> is either None or a colour name; a Modifier (a bit set)   *)
(* is a set of flag names.  The feature "underline-color" is off.          *)
(***************************************************************************)
EXTENDS Integers, Sequences, FiniteSets, TLC

VARIABLES cur, oth, last, prevMod, quad, gauge, status, setter, frame

styleVars == <<cur, oth, last, prevMod, quad>>
gaugeVars == <<gauge, status, setter, frame>>
vars == <<cur, oth, last, prevMod, quad, gauge, status, setter, frame>>

----------------------------------------------------------------------------
(* Colours and modifiers *)

None == "None"

\* Option::or
or(a, b) == IF a # None THEN a ELSE b

\* Option::unwrap_or
unwrap_or(a, d) == IF a # None THEN a ELSE d

\* The colours of the model: Color::Reset and one named colour.
Colors == {"Reset", "Yellow"}

OptColor == Colors \cup {None}

\* The flags of the model, two of the nine bits of Modifier.
Flags == {"BOLD", "ITALIC"}

Modifier == SUBSET Flags

\* Modifier::empty(), Modifier::all()
empty == {}

all == Flags

\* bitflags union / insert, difference / remove
union(m, n) == m \cup n

difference(m, n) == m \ n

----------------------------------------------------------------------------
(* Style *)

\* Style::new(), which Style::default() returns
new ==
  [fg |-> None, bg |-> None, add_modifier |-> empty, sub_modifier |-> empty]

reset ==
  [fg |-> "Reset", bg |-> "Reset", add_modifier |-> empty, sub_modifier |-> all]

fg(self, color) == [self EXCEPT !.fg = color]

bg(self, color) == [self EXCEPT !.bg = color]

add_modifier_keeps_sub(self, modifier) ==
  [self EXCEPT !.add_modifier = union(self.add_modifier, modifier)]

add_modifier(self, modifier) ==
  [self EXCEPT !.sub_modifier = difference(self.sub_modifier, modifier),
               !.add_modifier = union(self.add_modifier, modifier)]

remove_modifier(self, modifier) ==
  [self EXCEPT !.add_modifier = difference(self.add_modifier, modifier),
               !.sub_modifier = union(self.sub_modifier, modifier)]

\* patch with the colours of self winning over those of other
patch_self_wins(self, other) ==
  [fg |-> or(self.fg, other.fg),
   bg |-> or(self.bg, other.bg),
   add_modifier |->
     union(difference(self.add_modifier, other.sub_modifier), other.add_modifier),
   sub_modifier |->
     union(difference(self.sub_modifier, other.add_modifier), other.sub_modifier)]

\* patch that inserts into each modifier set before it removes from it
patch_insert_first(self, other) ==
  [fg |-> or(other.fg, self.fg),
   bg |-> or(other.bg, self.bg),
   add_modifier |->
     difference(union(self.add_modifier, other.add_modifier), other.sub_modifier),
   sub_modifier |->
     difference(union(self.sub_modifier, other.sub_modifier), other.add_modifier)]

\* patch that assigns other's colours without Option::or
patch_overwrites_colours(self, other) ==
  [fg |-> other.fg,
   bg |-> other.bg,
   add_modifier |->
     union(difference(self.add_modifier, other.sub_modifier), other.add_modifier),
   sub_modifier |->
     union(difference(self.sub_modifier, other.add_modifier), other.sub_modifier)]

\* the four statements on the modifiers run in the order of the source:
\* add_modifier.remove, add_modifier.insert, sub_modifier.remove,
\* sub_modifier.insert
patch(self, other) ==
  [fg |-> or(other.fg, self.fg),
   bg |-> or(other.bg, self.bg),
   add_modifier |->
     union(difference(self.add_modifier, other.sub_modifier), other.add_modifier),
   sub_modifier |->
     union(difference(self.sub_modifier, other.add_modifier), other.sub_modifier)]

\* Every value of the struct over the given colours and flags (its fields are
\* public, so add_modifier and sub_modifier may overlap).
StylesOver(colors, flags) ==
  [fg : colors \cup {None}, bg : colors \cup {None},
   add_modifier : SUBSET flags, sub_modifier : SUBSET flags]

AllStyles == StylesOver(Colors, Flags)

\* The styles of the associativity check: every colour, one flag.
AssocStyles == StylesOver(Colors, {"BOLD"})

----------------------------------------------------------------------------
(* f64 values of the gauges: exact rationals [n, d] in lowest terms with   *)
(* d > 0, and NaN.  Rounding error of the f64 operations is not modelled.  *)

RECURSIVE GCD(_, _)
GCD(a, b) == IF b = 0 THEN a ELSE GCD(b, a % b)

Abs(i) == IF i < 0 THEN -i ELSE i

\* the f64 n / d, d # 0
Rat(n, d) ==
  LET g == GCD(Abs(n), Abs(d))
      sgn == IF d < 0 THEN -1 ELSE 1
  IN  [n |-> sgn * (n \div g), d |-> sgn * (d \div g)]

NaN == [n |-> 0, d |-> 0]

\* f64::from(u16)
from_u16(i) == [n |-> i, d |-> 1]

\* f64 division, multiplication, comparison
div(a, b) == IF a = NaN \/ b = NaN \/ b.n = 0 THEN NaN ELSE Rat(a.n * b.d, a.d * b.n)

mul(a, b) == IF a = NaN \/ b = NaN THEN NaN ELSE Rat(a.n * b.n, a.d * b.d)

le(a, b) == a # NaN /\ b # NaN /\ a.n * b.d <= b.n * a.d

lt(a, b) == a # NaN /\ b # NaN /\ a.n * b.d < b.n * a.d

\* (0.0..=1.0).contains(&ratio): false for NaN
contains_0_1(ratio) == le(from_u16(0), ratio) /\ le(ratio, from_u16(1))

----------------------------------------------------------------------------
(* Gauge and LineGauge configuration *)

\* the divisor of Gauge::percent
Hundred == 100

\* Block is a collaborator: only its borders, which decide inner(), are kept.
NoBlock == "None"

Blocks == {NoBlock, "Borders::ALL"}

\* symbols::line::NORMAL.horizontal and symbols::line::THICK.horizontal
LineSets == {"NORMAL", "THICK"}

\* a label is None or the sequence of its characters
NoLabel == <<"None">>

\* Gauge::default(); LineGauge::default() (derived: every field default)
GaugeDefault ==
  [kind |-> "Gauge", block |-> NoBlock, ratio |-> from_u16(0), label |-> NoLabel,
   use_unicode |-> FALSE, line_set |-> "NORMAL", style |-> new, gauge_style |-> new]

LineGaugeDefault == [GaugeDefault EXCEPT !.kind = "LineGauge"]

\* the value of a construction that panicked: none
NoGauge == [kind |-> "none"]

\* assert!(percent <= 100)
percent_ok(p) == p <= Hundred

\* ratio's assertion checking the upper bound only
ratio_accepts_negative(r) == le(r, from_u16(1))

\* assert!((0.0..=1.0).contains(&ratio))
ratio_ok(r) == contains_0_1(r)

\* percent dividing by ten
percent_by_ten(self, p) == [self EXCEPT !.ratio = div(from_u16(p), from_u16(10))]

\* Gauge::percent past its assertion
percent(self, p) == [self EXCEPT !.ratio = div(from_u16(p), from_u16(Hundred))]

\* Gauge::ratio and LineGauge::ratio past their assertion
ratio(self, r) == [self EXCEPT !.ratio = r]

\* the percentages tried: 0 ..= 100 and the next MaxExcess values of u16
MaxExcess == 2

Percents == 0 .. (Hundred + MaxExcess)

\* the denominators of the ratios tried
MaxDen == 8

\* the f64 values tried as ratios: n/d from -1/d to (d+1)/d, every whole
\* percentage, and NaN
RatioInputs ==
  {Rat(n, d) : n \in -1 .. (MaxDen + 1), d \in 1 .. MaxDen}
    \cup {Rat(n, Hundred) : n \in -1 .. (Hundred + 1)}
    \cup {NaN}

----------------------------------------------------------------------------
(* Rendering.  The buffer covers BufferArea; a render call is given an     *)
(* area inside it.  What a call does to the buffer is kept as a frame: the *)
(* set_style washes in their order and the set of cell writes, each with   *)
(* the glyph and the colours it sets (None: the cell's colour is left as   *)
(* it was).                                                                *)

MaxWidth == 4

MaxHeight == 2

BufferArea == [x |-> 0, y |-> 0, width |-> MaxWidth, height |-> MaxHeight]

\* Rect::left, right, top, bottom
left(r) == r.x

right(r) == r.x + r.width

top(r) == r.y

bottom(r) == r.y + r.height

\* the areas a caller may pass: the rectangles inside the buffer
Areas ==
  {[x |-> x, y |-> y, width |-> w, height |-> h] :
     x \in 0 .. MaxWidth, y \in 0 .. MaxHeight, w \in 0 .. MaxWidth, h \in 0 .. MaxHeight}

InBuffer(r) == right(r) <= right(BufferArea) /\ bottom(r) <= bottom(BufferArea)

\* u16::saturating_sub
saturating_sub(a, b) == IF a >= b THEN a - b ELSE 0

Min(a, b) == IF a <= b THEN a ELSE b

\* Block::inner for a block with all four borders and for no block
inner(block, area) ==
  IF block = NoBlock THEN area
  ELSE [x |-> Min(area.x + 1, right(area)),
        y |-> Min(area.y + 1, bottom(area)),
        width |-> saturating_sub(saturating_sub(area.width, 1), 1),
        height |-> saturating_sub(saturating_sub(area.height, 1), 1)]

\* Buffer::get_mut reaches a cell of the buffer only
in_buffer(x, y) ==
  /\ left(BufferArea) <= x /\ x < right(BufferArea)
  /\ top(BufferArea) <= y /\ y < bottom(BufferArea)

\* f64::floor and f64::round (half away from zero) of a value >= 0, as u16
floor(v) == v.n \div v.d

round(v) == (2 * v.n + v.d) \div (2 * v.d)

\* round to the nearest integer, half to even: what {:.0} prints
round_half_even(v) ==
  LET f == v.n \div v.d
      rem2 == 2 * (v.n % v.d)
  IN  IF rem2 < v.d THEN f
      ELSE IF rem2 > v.d THEN f + 1
      ELSE IF f % 2 = 0 THEN f ELSE f + 1

\* v % 1.0 for v >= 0
fract(v) == Rat(v.n % v.d, v.d)

\* the decimal digits of n < 1000
Digit(k) == <<"0", "1", "2", "3", "4", "5", "6", "7", "8", "9">>[k + 1]

Digits(n) ==
  IF n < 10 THEN <<Digit(n)>>
  ELSE IF n < 100 THEN <<Digit(n \div 10), Digit(n % 10)>>
  ELSE <<Digit(n \div 100), Digit((n \div 10) % 10), Digit(n % 10)>>

\* format!("{pct}%") with pct = f64::round(ratio * 100.0)
gauge_label(g) ==
  IF g.label # NoLabel THEN g.label
  ELSE Digits(round(mul(g.ratio, from_u16(Hundred)))) \o <<"%">>

\* format!("{:.0}%", ratio * 100.0)
line_gauge_label(g) ==
  IF g.label # NoLabel THEN g.label
  ELSE Digits(round_half_even(mul(g.ratio, from_u16(Hundred)))) \o <<"%">>

\* the glyph of the eighths reached, the started one left out
get_unicode_block_floor(frac) ==
  LET k == floor(mul(frac, from_u16(8)))
  IN  IF k \in 1 .. 8
        THEN <<"ONE_EIGHTH", "ONE_QUARTER", "THREE_EIGHTHS", "HALF", "FIVE_EIGHTHS",
               "THREE_QUARTERS", "SEVEN_EIGHTHS", "FULL">>[k]
        ELSE " "

\* the glyphs without the arm of eight eighths
get_unicode_block_no_full(frac) ==
  LET k == round(mul(frac, from_u16(8)))
  IN  IF k \in 1 .. 7
        THEN <<"ONE_EIGHTH", "ONE_QUARTER", "THREE_EIGHTHS", "HALF", "FIVE_EIGHTHS",
               "THREE_QUARTERS", "SEVEN_EIGHTHS">>[k]
        ELSE " "

\* get_unicode_block: the glyph of (frac * 8.0).round() eighths
get_unicode_block(frac) ==
  LET k == round(mul(frac, from_u16(8)))
  IN  IF k \in 1 .. 8
        THEN <<"ONE_EIGHTH", "ONE_QUARTER", "THREE_EIGHTHS", "HALF", "FIVE_EIGHTHS",
               "THREE_QUARTERS", "SEVEN_EIGHTHS", "FULL">>[k]
        ELSE " "

Write(x, y, kind, symbol, fgc, bgc, add, sub) ==
  [x |-> x, y |-> y, kind |-> kind, symbol |-> symbol, fg |-> fgc, bg |-> bgc,
   add_modifier |-> add, sub_modifier |-> sub]

Wash(rect, style) == [rect |-> rect, style |-> style]

\* Buffer::set_span / set_line: the characters of text from (x, y), at most
\* max_width of them and none past the buffer's right edge, in the default
\* style of a Span made from a string
set_text(x, y, text, max_width) ==
  {Write(x + i, y, "label", text[i + 1], None, None, empty, empty) :
     i \in {j \in 0 .. (Len(text) - 1) : j < max_width /\ x + j < right(BufferArea)}}

\* the end column with the started column left out in both modes
gauge_end_floor(g, gauge_area) ==
  left(gauge_area) + floor(mul(from_u16(gauge_area.width), g.ratio))

\* the end column of the fill
gauge_end(g, gauge_area) ==
  LET filled_width == mul(from_u16(gauge_area.width), g.ratio)
  IN  IF g.use_unicode
        THEN left(gauge_area) + floor(filled_width)
        ELSE left(gauge_area) + round(filled_width)

clamped_label_width(g, gauge_area) == Min(gauge_area.width, Len(gauge_label(g)))

\* the label column with the odd column of the margin put on the left
label_col_ceil(g, gauge_area) ==
  left(gauge_area) + (gauge_area.width - clamped_label_width(g, gauge_area) + 1) \div 2

label_col(g, gauge_area) ==
  left(gauge_area) + (gauge_area.width - clamped_label_width(g, gauge_area)) \div 2

label_row(g, gauge_area) == top(gauge_area) + gauge_area.height \div 2

\* the test with the column after the label's last one taken as outside
outside_label_exclusive(g, gauge_area, x, y) ==
  \/ x < label_col(g, gauge_area)
  \/ x >= label_col(g, gauge_area) + clamped_label_width(g, gauge_area)
  \/ y # label_row(g, gauge_area)

\* the test of the filled loop: the cell is not under the label
outside_label(g, gauge_area, x, y) ==
  \/ x < label_col(g, gauge_area)
  \/ x > label_col(g, gauge_area) + clamped_label_width(g, gauge_area)
  \/ y # label_row(g, gauge_area)

\* one cell of the filled part
fill_cell(g, gauge_area, x, y) ==
  IF outside_label(g, gauge_area, x, y)
    THEN Write(x, y, "fill", "FULL",
               unwrap_or(g.gauge_style.fg, "Reset"),
               unwrap_or(g.gauge_style.bg, "Reset"), empty, empty)
    ELSE Write(x, y, "blank", " ",
               unwrap_or(g.gauge_style.bg, "Reset"),
               unwrap_or(g.gauge_style.fg, "Reset"), empty, empty)

\* a fractional glyph whatever the ratio
writes_fraction_always(g) == g.use_unicode

\* whether the loop writes a fractional glyph at the end column
writes_fraction(g) == g.use_unicode /\ lt(g.ratio, from_u16(1))

\* a guard on the width in place of the height
no_columns(gauge_area) == gauge_area.width < 1

\* the guard of both render methods: gauge_area.height < 1
no_rows(gauge_area) == gauge_area.height < 1

\* Gauge::render
gauge_render(g, area) ==
  LET gauge_area == inner(g.block, area)
      washes == <<Wash(area, g.style), Wash(gauge_area, g.gauge_style)>>
      end == gauge_end(g, gauge_area)
      filled_width == mul(from_u16(gauge_area.width), g.ratio)
      \* the loop over the rows stops at the first get_mut outside the buffer
      fails == /\ ~no_rows(gauge_area)
               /\ writes_fraction(g)
               /\ ~in_buffer(end, top(gauge_area))
      rows == IF fails THEN {top(gauge_area)}
              ELSE top(gauge_area) .. (bottom(gauge_area) - 1)
      fill == {fill_cell(g, gauge_area, x, y) :
                 x \in left(gauge_area) .. (end - 1), y \in rows}
      fraction ==
        IF writes_fraction(g) /\ ~fails
          THEN {Write(end, y, "fraction", get_unicode_block(fract(filled_width)),
                      None, None, empty, empty) : y \in rows}
          ELSE {}
      label ==
        IF fails THEN {}
        ELSE set_text(label_col(g, gauge_area), label_row(g, gauge_area),
                      gauge_label(g), clamped_label_width(g, gauge_area))
  IN  IF no_rows(gauge_area)
        THEN [area |-> area, gauge_area |-> gauge_area, washes |-> washes,
              writes |-> {}, panicked |-> FALSE]
        ELSE [area |-> area, gauge_area |-> gauge_area, washes |-> washes,
              writes |-> fill \cup fraction \cup label, panicked |-> fails]

\* a cell of the line that takes the bar style's bg too
line_cell_with_bg(g, x, y, kind, color) ==
  Write(x, y, kind, g.line_set, color, g.gauge_style.bg,
        g.gauge_style.add_modifier, g.gauge_style.sub_modifier)

\* one cell of the line, its glyph coloured with the given colour
line_cell(g, x, y, kind, color) ==
  Write(x, y, kind, g.line_set, color, None,
        g.gauge_style.add_modifier, g.gauge_style.sub_modifier)

\* the line started in the column the label ends at
line_start_at_label_end(col) == col

\* the first column of the line: one past the column set_line returns
line_start(col) == col + 1

\* LineGauge::render
line_gauge_render(g, area) ==
  LET gauge_area == inner(g.block, area)
      washes == <<Wash(area, g.style)>>
      text == line_gauge_label(g)
      label == set_text(left(gauge_area), top(gauge_area), text, gauge_area.width)
      \* what set_line returns
      col == left(gauge_area) + Min(Len(text), gauge_area.width)
      row == top(gauge_area)
      start == line_start(col)
      end == start +
             floor(mul(from_u16(saturating_sub(right(gauge_area), start)), g.ratio))
      filled == {line_cell(g, x, row, "line_filled", g.gauge_style.fg) :
                   x \in start .. (end - 1)}
      unfilled == {line_cell(g, x, row, "line_unfilled", g.gauge_style.bg) :
                     x \in end .. (right(gauge_area) - 1)}
  IN  IF no_rows(gauge_area)
        THEN [area |-> area, gauge_area |-> gauge_area, washes |-> washes,
              writes |-> {}, panicked |-> FALSE]
      ELSE IF start >= right(gauge_area)
        THEN [area |-> area, gauge_area |-> gauge_area, washes |-> washes,
              writes |-> label, panicked |-> FALSE]
      ELSE [area |-> area, gauge_area |-> gauge_area, washes |-> washes,
            writes |-> label \cup filled \cup unfilled, panicked |-> FALSE]

\* the denominators of the ratios rendered, and the odd sixteenths, where
\* an eighth of a cell is half reached
Ratios ==
  {Rat(n, d) : n \in 0 .. MaxDen, d \in 1 .. MaxDen} \cup
  {Rat(n, 16) : n \in 0 .. 16}

RenderRatios == {r \in Ratios : contains_0_1(r)}

Labels == {NoLabel, <<>>, <<"a">>, <<"a", "b", "c", "d", "e", "f">>}

GaugeStyles ==
  {new, add_modifier(fg(new, "Yellow"), {"BOLD"}), bg(new, "Yellow")}

WidgetStyles == {new, reset}

\* the gauges the setters can build
Gauges ==
  {[kind |-> "Gauge", block |-> b, ratio |-> r, label |-> l, use_unicode |-> u,
    line_set |-> "NORMAL", style |-> s, gauge_style |-> gs] :
     b \in Blocks, r \in RenderRatios, l \in Labels, u \in BOOLEAN,
     s \in WidgetStyles, gs \in GaugeStyles}

LineGauges ==
  {[kind |-> "LineGauge", block |-> b, ratio |-> r, label |-> l,
    use_unicode |-> FALSE, line_set |-> ls, style |-> s, gauge_style |-> gs] :
     b \in Blocks, r \in RenderRatios, l \in Labels, ls \in LineSets,
     s \in WidgetStyles, gs \in GaugeStyles}

\* the last setter call: its name, its argument, the kind of gauge it was
\* called on and whether that gauge was the default one
NoSetter == [op |-> "none", p |-> 0, r |-> NaN, on |-> "none", fresh |-> FALSE]

IsDefault(g) == g \in {GaugeDefault, LineGaugeDefault}

GaugeIdle ==
  /\ gauge = NoGauge
  /\ status = "idle"
  /\ setter = NoSetter
  /\ frame = <<>>

----------------------------------------------------------------------------
(* Calls on a style value.  cur is the value being built, last the call     *)
(* that produced it; when last is an add_modifier or a remove_modifier,    *)
(* prevMod is the add_modifier or remove_modifier made just before it (if  *)
(* the call before it was one).                                            *)

NoCall ==
  [op |-> "none", color |-> None, modifier |-> empty, other |-> new, before |-> new]

NoMod == [op |-> "none", modifier |-> empty]

ModOf(call) ==
  IF call.op \in {"add_modifier", "remove_modifier"}
    THEN [op |-> call.op, modifier |-> call.modifier]
    ELSE NoMod

CallFg(color) ==
  /\ cur' = fg(cur, color)
  /\ last' = [NoCall EXCEPT !.op = "fg", !.color = color, !.before = cur]
  /\ prevMod' = NoMod
  /\ UNCHANGED <<oth, quad, gaugeVars>>

CallBg(color) ==
  /\ cur' = bg(cur, color)
  /\ last' = [NoCall EXCEPT !.op = "bg", !.color = color, !.before = cur]
  /\ prevMod' = NoMod
  /\ UNCHANGED <<oth, quad, gaugeVars>>

CallAddModifier(modifier) ==
  /\ cur' = add_modifier(cur, modifier)
  /\ last' = [NoCall EXCEPT !.op = "add_modifier", !.modifier = modifier,
                            !.before = cur]
  /\ prevMod' = ModOf(last)
  /\ UNCHANGED <<oth, quad, gaugeVars>>

CallRemoveModifier(modifier) ==
  /\ cur' = remove_modifier(cur, modifier)
  /\ last' = [NoCall EXCEPT !.op = "remove_modifier", !.modifier = modifier,
                            !.before = cur]
  /\ prevMod' = ModOf(last)
  /\ UNCHANGED <<oth, quad, gaugeVars>>

CallPatch(other) ==
  /\ cur' = patch(cur, other)
  /\ last' = [NoCall EXCEPT !.op = "patch", !.other = other, !.before = cur]
  /\ prevMod' = NoMod
  /\ UNCHANGED <<oth, quad, gaugeVars>>

\* the style variables when no style is being built
StyleIdle ==
  /\ cur = new /\ oth = new /\ last = NoCall /\ prevMod = NoMod /\ quad = <<>>

Setter ==
  \/ \E color \in Colors : CallFg(color)
  \/ \E color \in Colors : CallBg(color)
  \/ \E modifier \in Modifier : CallAddModifier(modifier)
  \/ \E modifier \in Modifier : CallRemoveModifier(modifier)

----------------------------------------------------------------------------
(* SpecFn: the calls applied to any value of the struct. *)

InitFn ==
  /\ cur \in AllStyles
  /\ oth = new
  /\ last = NoCall
  /\ prevMod = NoMod
  /\ quad = <<>>
  /\ GaugeIdle

PatchAny == \E other \in AllStyles : CallPatch(other)

NextFn == Setter \/ PatchAny

SpecFn == InitFn /\ [][NextFn]_vars

----------------------------------------------------------------------------
(* SpecStyle: two style values built from Style::default() or              *)
(* Style::reset() by the setters and by patching one with the other.       *)

InitStyle ==
  /\ cur \in {new, reset}
  /\ oth \in {new, reset}
  /\ last = NoCall
  /\ prevMod = NoMod
  /\ quad = <<>>
  /\ GaugeIdle

PatchOther == CallPatch(oth)

\* the program goes on with its other value
Swap ==
  /\ cur' = oth
  /\ oth' = cur
  /\ last' = NoCall
  /\ prevMod' = NoMod
  /\ UNCHANGED <<quad, gaugeVars>>

NextStyle == Setter \/ PatchOther \/ Swap

SpecStyle == InitStyle /\ [][NextStyle]_vars

----------------------------------------------------------------------------
(* SpecAssoc: four styles patched one after the other onto the default     *)
(* style (cur), and combined first and patched once (oth), as the test     *)
(* combined_patch_gives_same_result_as_individual_patch does.              *)

InitAssoc ==
  /\ cur = new
  /\ oth = new
  /\ last = NoCall
  /\ prevMod = NoMod
  /\ quad = <<>>
  /\ GaugeIdle

PatchChain ==
  /\ quad = <<>>
  /\ \E a \in AssocStyles, b \in AssocStyles, c \in AssocStyles, d \in AssocStyles :
       /\ quad' = <<a, b, c, d>>
       /\ cur' = patch(patch(patch(patch(new, a), b), c), d)
       /\ oth' = patch(new, patch(a, patch(b, patch(c, d))))
  /\ UNCHANGED <<last, prevMod, gaugeVars>>

NextAssoc == PatchChain

SpecAssoc == InitAssoc /\ [][NextAssoc]_vars

----------------------------------------------------------------------------
(* SpecConfig: a gauge built from its default by the setters. *)

InitConfig ==
  /\ gauge \in {GaugeDefault, LineGaugeDefault}
  /\ status = "built"
  /\ setter = NoSetter
  /\ frame = <<>>
  /\ StyleIdle

SetPercent(p) ==
  /\ status = "built"
  /\ gauge.kind = "Gauge"
  /\ setter' = [op |-> "percent", p |-> p, r |-> NaN, on |-> gauge.kind,
                fresh |-> IsDefault(gauge)]
  /\ IF percent_ok(p)
       THEN gauge' = percent(gauge, p) /\ status' = "built"
       ELSE gauge' = NoGauge /\ status' = "panicked"
  /\ UNCHANGED <<frame, styleVars>>

SetRatio(r) ==
  /\ status = "built"
  /\ setter' = [op |-> "ratio", p |-> 0, r |-> r, on |-> gauge.kind,
                fresh |-> IsDefault(gauge)]
  /\ IF ratio_ok(r)
       THEN gauge' = ratio(gauge, r) /\ status' = "built"
       ELSE gauge' = NoGauge /\ status' = "panicked"
  /\ UNCHANGED <<frame, styleVars>>

SetUseUnicode(unicode) ==
  /\ status = "built"
  /\ gauge.kind = "Gauge"
  /\ gauge' = [gauge EXCEPT !.use_unicode = unicode]
  /\ setter' = [NoSetter EXCEPT !.op = "use_unicode", !.on = gauge.kind,
                                !.fresh = IsDefault(gauge)]
  /\ UNCHANGED <<status, frame, styleVars>>

SetGaugeStyle(style) ==
  /\ status = "built"
  /\ gauge' = [gauge EXCEPT !.gauge_style = style]
  /\ setter' = [NoSetter EXCEPT !.op = "gauge_style", !.on = gauge.kind,
                                !.fresh = IsDefault(gauge)]
  /\ UNCHANGED <<status, frame, styleVars>>

\* after a panic the caller starts over from a default
StartOver ==
  /\ status = "panicked"
  /\ gauge' \in {GaugeDefault, LineGaugeDefault}
  /\ status' = "built"
  /\ setter' = NoSetter
  /\ UNCHANGED <<frame, styleVars>>

NextConfig ==
  \/ \E p \in Percents : SetPercent(p)
  \/ \E r \in RatioInputs : SetRatio(r)
  \/ \E unicode \in BOOLEAN : SetUseUnicode(unicode)
  \/ \E style \in {new, fg(new, "Yellow")} : SetGaugeStyle(style)
  \/ StartOver

SpecConfig == InitConfig /\ [][NextConfig]_vars

----------------------------------------------------------------------------
(* SpecRender: a built gauge is rendered once into an area of the buffer.  *)

InitRender ==
  /\ gauge \in Gauges \cup LineGauges
  /\ status = "built"
  /\ setter = NoSetter
  /\ frame = <<>>
  /\ StyleIdle

RenderGauge ==
  /\ status = "built"
  /\ gauge.kind = "Gauge"
  /\ \E area \in Areas :
       /\ InBuffer(area)
       /\ frame' = gauge_render(gauge, area)
       /\ status' = IF frame'.panicked THEN "render_panicked" ELSE "rendered"
  /\ UNCHANGED <<gauge, setter, styleVars>>

RenderLineGauge ==
  /\ status = "built"
  /\ gauge.kind = "LineGauge"
  /\ \E area \in Areas :
       /\ InBuffer(area)
       /\ frame' = line_gauge_render(gauge, area)
       /\ status' = IF frame'.panicked THEN "render_panicked" ELSE "rendered"
  /\ UNCHANGED <<gauge, setter, styleVars>>

NextRender == RenderGauge \/ RenderLineGauge

SpecRender == InitRender /\ [][NextRender]_vars

\* Rendering with the default styles, whatever the block, the ratio, the
\* label, the precision mode and the line set: the styles move no boundary
InitPlain ==
  /\ gauge \in {g \in Gauges \cup LineGauges : g.style = new /\ g.gauge_style = new}
  /\ status = "built"
  /\ setter = NoSetter
  /\ frame = <<>>
  /\ StyleIdle

SpecPlain == InitPlain /\ [][NextRender]_vars

----------------------------------------------------------------------------
(* Properties of the style model *)

\* C1: patch grouping does not matter: the default style patched with a, b,
\* c and d one after the other equals, on fg, bg, add_modifier and
\* sub_modifier, the default style patched once with
\* a.patch(b.patch(c.patch(d))).
C1_PatchGrouping ==
  quad # <<>> =>
    /\ cur.fg = oth.fg
    /\ cur.bg = oth.bg
    /\ cur.add_modifier = oth.add_modifier
    /\ cur.sub_modifier = oth.sub_modifier

\* a removes BOLD, b adds it, c sets both colours, d resets the foreground
C1_Witness ==
  /\ quad # <<>>
  /\ quad[1].sub_modifier = {"BOLD"} /\ quad[1].add_modifier = {}
  /\ quad[2].add_modifier = {"BOLD"} /\ quad[2].sub_modifier = {}
  /\ quad[3].fg = "Yellow" /\ quad[3].bg = "Yellow"
  /\ quad[4].fg = "Reset" /\ quad[4].bg = None
  /\ quad[3].add_modifier = {} /\ quad[3].sub_modifier = {}
  /\ quad[4].add_modifier = {} /\ quad[4].sub_modifier = {}
  /\ cur = [fg |-> "Reset", bg |-> "Yellow", add_modifier |-> {"BOLD"},
            sub_modifier |-> {}]
  /\ oth = cur

\* C2: modifier exclusivity: a style built from Style::default() or
\* Style::reset() by add_modifier, remove_modifier, fg, bg and patch with a
\* style built the same way never has a flag in both add_modifier and
\* sub_modifier.
C2_ModifierExclusivity ==
  /\ cur.add_modifier \cap cur.sub_modifier = {}
  /\ oth.add_modifier \cap oth.sub_modifier = {}

\* a patch whose argument adds a flag the patched style removed
C2_Witness ==
  /\ last.op = "patch"
  /\ last.other = oth
  /\ last.before.sub_modifier \cap oth.add_modifier # {}
  /\ last.before.add_modifier \cap oth.sub_modifier # {}
  /\ cur.add_modifier # {} /\ cur.sub_modifier # {}
  /\ cur.add_modifier \cap cur.sub_modifier = {}

\* C3: reset neutralizes: Style::default().patch(X).patch(Style::reset()) has
\* fg and bg Some(Color::Reset), an empty add_modifier and every flag in
\* sub_modifier, whatever X is.
C3_ResetNeutralizes ==
  ( /\ last.op = "patch"
    /\ last.other = reset
    /\ \E X \in AllStyles : last.before = patch(new, X) ) =>
    /\ cur.fg = "Reset"
    /\ cur.bg = "Reset"
    /\ cur.add_modifier = {}
    /\ cur.sub_modifier = Flags

C3_Witness ==
  /\ last.op = "patch"
  /\ last.other = reset
  /\ last.before = patch(new, [fg |-> "Yellow", bg |-> None,
                               add_modifier |-> {"BOLD"},
                               sub_modifier |-> {"ITALIC"}])
  /\ last.before.fg = "Yellow"
  /\ cur = reset

\* C4: patching with the default style is a no-op: X.patch(Style::default())
\* equals X for every value X of the struct.
C4_PatchDefaultNoOp ==
  (last.op = "patch" /\ last.other = new) => cur = last.before

C4_Witness ==
  /\ last.op = "patch"
  /\ last.other = new
  /\ last.before = [fg |-> "Yellow", bg |-> "Reset", add_modifier |-> {"BOLD"},
                    sub_modifier |-> {"BOLD", "ITALIC"}]
  /\ cur = last.before

\* what a colour field of self.patch(other) is to be
PatchedColour(selfc, otherc) == IF otherc # None THEN otherc ELSE selfc

\* C5: in self.patch(other) each colour field is other's value when other's
\* field is present and self's value otherwise, and is absent only when it
\* is absent in both.
C5_PatchColours ==
  last.op = "patch" =>
    /\ cur.fg = PatchedColour(last.before.fg, last.other.fg)
    /\ cur.bg = PatchedColour(last.before.bg, last.other.bg)
    /\ (cur.fg = None) <=> (last.before.fg = None /\ last.other.fg = None)
    /\ (cur.bg = None) <=> (last.before.bg = None /\ last.other.bg = None)

\* other's foreground wins over self's, self's background is kept
C5_Witness ==
  /\ last.op = "patch"
  /\ last.before.fg = "Reset" /\ last.other.fg = "Yellow"
  /\ last.before.bg = "Yellow" /\ last.other.bg = None
  /\ cur.fg = "Yellow" /\ cur.bg = "Yellow"

\* C6: add_modifier(F) gives add_modifier \cup F and sub_modifier \ F,
\* remove_modifier(F) gives add_modifier \ F and sub_modifier \cup F, both
\* leave fg and bg alone, and of an add_modifier and a remove_modifier of
\* one flag the call made last decides which set holds it.
C6_AddRemoveModifier ==
  /\ last.op = "add_modifier" =>
       /\ cur.add_modifier = last.before.add_modifier \cup last.modifier
       /\ cur.sub_modifier = last.before.sub_modifier \ last.modifier
       /\ cur.fg = last.before.fg /\ cur.bg = last.before.bg
  /\ last.op = "remove_modifier" =>
       /\ cur.add_modifier = last.before.add_modifier \ last.modifier
       /\ cur.sub_modifier = last.before.sub_modifier \cup last.modifier
       /\ cur.fg = last.before.fg /\ cur.bg = last.before.bg
  /\ (last.op = "add_modifier" /\ prevMod.op = "remove_modifier") =>
       \A f \in last.modifier \cap prevMod.modifier :
         f \in cur.add_modifier /\ f \notin cur.sub_modifier
  /\ (last.op = "remove_modifier" /\ prevMod.op = "add_modifier") =>
       \A f \in last.modifier \cap prevMod.modifier :
         f \in cur.sub_modifier /\ f \notin cur.add_modifier

\* remove_modifier(BOLD | ITALIC), then add_modifier(BOLD)
C6_Witness ==
  /\ last.op = "add_modifier" /\ last.modifier = {"BOLD"}
  /\ prevMod.op = "remove_modifier" /\ prevMod.modifier = {"BOLD", "ITALIC"}
  /\ last.before.sub_modifier = {"BOLD", "ITALIC"}
  /\ last.before.fg = "Yellow"
  /\ cur.add_modifier = {"BOLD"} /\ cur.sub_modifier = {"ITALIC"}
  /\ cur.fg = "Yellow"

----------------------------------------------------------------------------
(* Properties of the gauge configuration *)

\* C7: invalid configuration is rejected at the setter call: percent(p)
\* panics for every p > 100, ratio(r) of Gauge and of LineGauge panics for
\* every r < 0.0 and every r > 1.0, every p in 0..=100 and every r in
\* [0.0, 1.0] is accepted, and no gauge with a ratio outside [0.0, 1.0]
\* exists.
C7_InvalidRejected ==
  /\ gauge # NoGauge => (le(from_u16(0), gauge.ratio) /\ le(gauge.ratio, from_u16(1)))
  /\ (status = "panicked") <=> (gauge = NoGauge)
  /\ setter.op = "percent" =>
       /\ setter.p > 100 => status = "panicked"
       /\ setter.p <= 100 => (status = "built" /\ gauge # NoGauge)
  /\ setter.op = "ratio" =>
       /\ (lt(setter.r, from_u16(0)) \/ lt(from_u16(1), setter.r)) =>
            status = "panicked"
       /\ (le(from_u16(0), setter.r) /\ le(setter.r, from_u16(1))) =>
            (status = "built" /\ gauge.ratio = setter.r)

\* LineGauge::ratio(-1/4) has panicked
C7_Witness ==
  /\ setter.op = "ratio"
  /\ setter.r = Rat(-1, 4)
  /\ setter.on = "LineGauge"
  /\ status = "panicked"
  /\ gauge = NoGauge

\* C8: percent/ratio equivalence: for every p in 0..=100,
\* Gauge::default().percent(p) has the ratio field of
\* Gauge::default().ratio(r) for the f64 r that is p/100, and every other
\* field of the two gauges is equal.
C8_PercentRatioEquivalence ==
  (setter.op = "percent" /\ setter.fresh /\ setter.p <= 100) =>
     \A r \in RatioInputs :
        (r # NaN /\ r.n * 100 = setter.p * r.d) =>
           /\ ratio_ok(r)
           /\ gauge.ratio = ratio(GaugeDefault, r).ratio
           /\ gauge = ratio(GaugeDefault, r)

\* Gauge::default().percent(20) and the ratio 1/5
C8_Witness ==
  /\ setter.op = "percent" /\ setter.p = 20 /\ setter.fresh
  /\ Rat(1, 5) \in RatioInputs
  /\ gauge = ratio(GaugeDefault, Rat(1, 5))
  /\ gauge.ratio = [n |-> 1, d |-> 5]

----------------------------------------------------------------------------
(* Properties of the rendering *)

Rendered == status \in {"rendered", "render_panicked"}

\* the cells of a rectangle
Cells(r) == (left(r) .. (right(r) - 1)) \X (top(r) .. (bottom(r) - 1))

\* the writes of the filled part: full blocks and the blanks under the label
FilledWrites == {w \in frame.writes : w.kind \in {"fill", "blank"}}

\* C9: gauge boundary cases: in both precision modes and for every working
\* rectangle, Gauge::render with ratio 0.0 writes no filled cell (full
\* block or swapped-colour blank), and with ratio 1.0 it writes a filled
\* cell in every column of every row of the working rectangle and no
\* fractional glyph.
C9_GaugeBoundaries ==
  (Rendered /\ gauge.kind = "Gauge") =>
    /\ gauge.ratio = from_u16(0) => FilledWrites = {}
    /\ gauge.ratio = from_u16(1) =>
         /\ \A c \in Cells(frame.gauge_area) :
              \E w \in FilledWrites :
                /\ w.x = c[1] /\ w.y = c[2]
                /\ w.symbol = IF w.kind = "fill" THEN "FULL" ELSE " "
         /\ \A w \in frame.writes : w.kind # "fraction"

\* ratio 1.0 with sub-cell precision over 4 columns and 2 rows: 8 filled
\* cells, one of them a blank under the label "a"
C9_Witness ==
  /\ status = "rendered"
  /\ gauge.kind = "Gauge" /\ gauge.use_unicode /\ gauge.ratio = from_u16(1)
  /\ gauge.label = <<"a">>
  /\ frame.gauge_area = [x |-> 0, y |-> 0, width |-> 4, height |-> 2]
  /\ Cardinality(FilledWrites) = 8
  /\ \E w \in FilledWrites : w.kind = "blank" /\ w.x = 1 /\ w.y = 1
  /\ \E w \in FilledWrites : w.kind = "fill" /\ w.x = 3 /\ w.y = 0

\* C10: zero-height guard: when the working rectangle has no row,
\* Gauge::render washes the area with the widget style and the working
\* rectangle with the bar style and returns, LineGauge::render washes the
\* area with the widget style and returns; neither writes a glyph (fill,
\* fractional, label or line segment) and neither fails.
C10_ZeroHeightGuard ==
  (Rendered /\ frame.gauge_area.height = 0) =>
    /\ frame.writes = {}
    /\ status = "rendered"
    /\ ~frame.panicked
    /\ gauge.kind = "Gauge" =>
         frame.washes = <<[rect |-> frame.area, style |-> gauge.style],
                          [rect |-> frame.gauge_area, style |-> gauge.gauge_style]>>
    /\ gauge.kind = "LineGauge" =>
         frame.washes = <<[rect |-> frame.area, style |-> gauge.style]>>

\* a gauge in a block whose borders leave no row of a 4 by 2 area
C10_Witness ==
  /\ status = "rendered"
  /\ gauge.kind = "Gauge" /\ gauge.block # NoBlock /\ gauge.use_unicode
  /\ gauge.ratio = Rat(1, 2)
  /\ frame.area = [x |-> 0, y |-> 0, width |-> 4, height |-> 2]
  /\ frame.gauge_area = [x |-> 1, y |-> 1, width |-> 2, height |-> 0]
  /\ frame.writes = {}
  /\ Len(frame.washes) = 2

\* the glyph writes of the three kinds Gauge::render makes
GaugeGlyphs ==
  {w \in frame.writes : w.kind \in {"fill", "blank", "fraction", "label"}}

InRect(w, r) ==
  /\ left(r) <= w.x /\ w.x < right(r)
  /\ top(r) <= w.y /\ w.y < bottom(r)

\* C11: zero-width tolerance: when the working rectangle of Gauge::render
\* has no column and at least one row, then for every ratio in [0, 1] and
\* both precision modes the call writes no fill, fractional or label glyph
\* to any cell of the buffer and does not fail.
C11_ZeroWidthTolerance ==
  (Rendered /\ gauge.kind = "Gauge"
     /\ frame.gauge_area.width = 0 /\ frame.gauge_area.height >= 1) =>
    /\ GaugeGlyphs = {}
    /\ ~frame.panicked
    /\ status = "rendered"

LabelWrites == {w \in frame.writes : w.kind = "label"}

\* C12: Gauge label placement: with clamped_label_width the smaller of the
\* width and the label's width, the label is drawn from column
\* left + (width - clamped_label_width) div 2 on row top + height div 2; for
\* every working rectangle with a row, the label's cells are the
\* clamped_label_width cells from that column on that row, each holding its
\* character of the label, all inside the working rectangle, and the left
\* margin is at most the right margin and smaller by at most one column.
C12_LabelPlacement ==
  (Rendered /\ gauge.kind = "Gauge" /\ frame.gauge_area.height >= 1
     /\ ~frame.panicked) =>
    LET r == frame.gauge_area
        text == gauge_label(gauge)
        clamped == IF r.width <= Len(text) THEN r.width ELSE Len(text)
        col == r.x + (r.width - clamped) \div 2
        row == r.y + r.height \div 2
        left_margin == col - r.x
        right_margin == (r.x + r.width) - (col + clamped)
    IN  /\ {<<w.x, w.y>> : w \in LabelWrites} = (col .. (col + clamped - 1)) \X {row}
        /\ \A w \in LabelWrites : w.symbol = text[w.x - col + 1] /\ InRect(w, r)
        /\ Cardinality(LabelWrites) = clamped
        /\ left_margin <= right_margin
        /\ right_margin <= left_margin + 1

\* the label "a" over 4 columns and 2 rows: at column 1 of row 1, one column
\* on its left and two on its right
C12_Witness ==
  /\ status = "rendered"
  /\ gauge.kind = "Gauge" /\ gauge.label = <<"a">>
  /\ frame.gauge_area = [x |-> 0, y |-> 0, width |-> 4, height |-> 2]
  /\ LabelWrites = {Write(1, 1, "label", "a", None, None, empty, empty)}

FractionWrites == {w \in frame.writes : w.kind = "fraction"}

\* the rows of a rectangle
Rows(r) == top(r) .. (bottom(r) - 1)

\* the eighths of a cell a block glyph covers
Eighths(symbol) ==
  CASE symbol = " " -> 0
    [] symbol = "ONE_EIGHTH" -> 1
    [] symbol = "ONE_QUARTER" -> 2
    [] symbol = "THREE_EIGHTHS" -> 3
    [] symbol = "HALF" -> 4
    [] symbol = "FIVE_EIGHTHS" -> 5
    [] symbol = "THREE_QUARTERS" -> 6
    [] symbol = "SEVEN_EIGHTHS" -> 7
    [] symbol = "FULL" -> 8

\* the columns filled on row y
FilledColumns(y) == {w.x : w \in {v \in FilledWrites : v.y = y}}

\* C13: sub-cell fill: with sub-cell precision on and ratio < 1 over a
\* working rectangle of w >= 1 columns, each row has exactly floor(w * ratio)
\* filled columns, from the left edge on, followed by one fractional glyph
\* at column left + floor(w * ratio) of k = round(8 * (w * ratio mod 1))
\* eighths (0: a blank, 8: a full block), so that the eighths rendered,
\* 8 * floor(w * ratio) + k, are w * ratio rounded to the nearest eighth;
\* for w = 9 and ratio 0.375 that is 3 full columns and the three-eighths
\* glyph.
C13_SubCellFill ==
  (Rendered /\ gauge.kind = "Gauge" /\ gauge.use_unicode
     /\ lt(gauge.ratio, from_u16(1))
     /\ frame.gauge_area.width >= 1 /\ frame.gauge_area.height >= 1) =>
    LET r == frame.gauge_area
        num == r.width * gauge.ratio.n
        den == gauge.ratio.d
        full == num \div den
        k == (16 * (num % den) + den) \div (2 * den)
    IN  /\ ~frame.panicked
        /\ \A y \in Rows(r) :
             /\ FilledColumns(y) = r.x .. (r.x + full - 1)
             /\ \E w \in FractionWrites :
                  /\ w.x = r.x + full /\ w.y = y
                  /\ Eighths(w.symbol) = k
                  /\ 8 * Cardinality(FilledColumns(y)) + Eighths(w.symbol)
                       = (16 * num + den) \div (2 * den)
        /\ Cardinality(FractionWrites) = r.height
        /\ k \in 0 .. 8
        \* the same gauge with ratio 0.375 over 9 columns
        /\ LET nine == [r EXCEPT !.width = 9]
               g == [gauge EXCEPT !.ratio = Rat(3, 8)]
           IN  /\ gauge_end(g, nine) = r.x + 3
               /\ get_unicode_block(fract(mul(from_u16(9), g.ratio))) = "THREE_EIGHTHS"

\* ratio 13/16 over 3 columns, 39/16 of a column: 2 filled columns and the
\* half block at column 2 of both rows, 20 eighths for 19 and a half
C13_Witness ==
  /\ status = "rendered"
  /\ gauge.kind = "Gauge" /\ gauge.use_unicode /\ gauge.ratio = Rat(13, 16)
  /\ frame.gauge_area = [x |-> 0, y |-> 0, width |-> 3, height |-> 2]
  /\ FilledColumns(0) = {0, 1} /\ FilledColumns(1) = {0, 1}
  /\ {<<w.x, w.y, w.symbol>> : w \in FractionWrites} = {<<2, 0, "HALF">>, <<2, 1, "HALF">>}

\* C14: whole-block fill: with sub-cell precision off, the number of filled
\* columns on every row of the working rectangle is width * ratio rounded
\* to the nearest integer, a remainder of exactly one half rounding up; the
\* filled columns start at the left edge, their number never exceeds the
\* width, and no fractional glyph is written whatever the ratio.
C14_WholeBlockFill ==
  (Rendered /\ gauge.kind = "Gauge" /\ ~gauge.use_unicode
     /\ frame.gauge_area.height >= 1) =>
    LET r == frame.gauge_area
        num == r.width * gauge.ratio.n
        den == gauge.ratio.d
        below == num \div den
        nearest == IF 2 * (num % den) >= den THEN below + 1 ELSE below
    IN  /\ ~frame.panicked
        /\ \A y \in Rows(r) :
             /\ FilledColumns(y) = r.x .. (r.x + nearest - 1)
             /\ Cardinality(FilledColumns(y)) <= r.width
        /\ FractionWrites = {}

\* ratio 1/2 over 3 columns, one column and a half: 2 filled columns on
\* both rows
C14_Witness ==
  /\ status = "rendered"
  /\ gauge.kind = "Gauge" /\ ~gauge.use_unicode /\ gauge.ratio = Rat(1, 2)
  /\ frame.gauge_area = [x |-> 1, y |-> 0, width |-> 3, height |-> 2]
  /\ FilledColumns(0) = {1, 2} /\ FilledColumns(1) = {1, 2}
  /\ FractionWrites = {}

\* the filled writes at one cell
FilledAt(x, y) == {w \in FilledWrites : w.x = x /\ w.y = y}

\* a colour of the bar style as it is written to a cell
Written(color) == IF color = None THEN "Reset" ELSE color

C16_BlankIffCovered ==
  (Rendered /\ gauge.kind = "Gauge" /\ frame.gauge_area.height >= 1) =>
    LET bar == gauge.gauge_style
        covered(x, y) == \E l \in LabelWrites : l.x = x /\ l.y = y
    IN  \A w \in FilledWrites :
          IF covered(w.x, w.y)
            THEN /\ w.symbol = " "
                 /\ w.fg = Written(bar.bg) /\ w.bg = Written(bar.fg)
            ELSE /\ w.symbol = "FULL"
                 /\ w.fg = Written(bar.fg) /\ w.bg = Written(bar.bg)

LineWrites == {w \in frame.writes : w.kind \in {"line_filled", "line_unfilled"}}

\* C17: LineGauge no-room guard: with start the column one past the end of
\* the rendered label, if start is at or beyond the right edge of the
\* working rectangle LineGauge::render draws the label and returns, writing
\* no line-segment glyph and not failing; and in every call the column
\* between the label and start, and any column before it, is given no
\* line-segment glyph.
C17_LineGaugeNoRoom ==
  (Rendered /\ gauge.kind = "LineGauge" /\ frame.gauge_area.height >= 1) =>
    LET r == frame.gauge_area
        text == line_gauge_label(gauge)
        drawn == IF Len(text) <= r.width THEN Len(text) ELSE r.width
        label_end == r.x + drawn
        start == label_end + 1
    IN  /\ ~frame.panicked /\ status = "rendered"
        /\ {<<w.x, w.y, w.symbol>> : w \in LabelWrites}
             = {<<r.x + i, r.y, text[i + 1]>> : i \in 0 .. (drawn - 1)}
        /\ start >= r.x + r.width =>
             /\ LineWrites = {}
             /\ frame.writes = LabelWrites
        /\ \A w \in LineWrites : w.x # label_end /\ w.x >= start

\* the default label "50%" over 4 columns: start is the right edge, the
\* three characters are drawn and no line segment
C17_Witness ==
  /\ status = "rendered"
  /\ gauge.kind = "LineGauge" /\ gauge.label = NoLabel /\ gauge.ratio = Rat(1, 2)
  /\ frame.gauge_area = [x |-> 0, y |-> 1, width |-> 4, height |-> 1]
  /\ {<<w.x, w.y, w.symbol>> : w \in frame.writes}
       = {<<0, 1, "5">>, <<1, 1, "0">>, <<2, 1, "%">>}
  /\ LineWrites = {}

LineAt(x, y) == {w \in LineWrites : w.x = x /\ w.y = y}

\* C18: LineGauge bar partition: when start, one past the end of the label,
\* is left of the right edge, with boundary = start +
\* floor((right - start) * ratio), every column of [start, right) on the
\* label row is written exactly once with the configured horizontal glyph,
\* the columns of [start, boundary) with the bar style's fg as glyph colour
\* and the columns of [boundary, right) with the bar style's bg as glyph
\* colour; the bar writes no other cell, and it leaves the background
\* colour of every cell it writes as it was.
C18_LineGaugePartition ==
  (Rendered /\ gauge.kind = "LineGauge" /\ frame.gauge_area.height >= 1) =>
    LET r == frame.gauge_area
        text == line_gauge_label(gauge)
        drawn == IF Len(text) <= r.width THEN Len(text) ELSE r.width
        start == r.x + drawn + 1
        edge == r.x + r.width
        boundary == start + ((edge - start) * gauge.ratio.n) \div gauge.ratio.d
        bar == gauge.gauge_style
    IN  start < edge =>
          /\ ~frame.panicked
          /\ \A x \in start .. (edge - 1) :
               /\ Cardinality(LineAt(x, r.y)) = 1
               /\ \A w \in LineAt(x, r.y) :
                    /\ w.symbol = gauge.line_set
                    /\ w.fg = IF x < boundary THEN bar.fg ELSE bar.bg
                    /\ w.bg = None
          /\ \A w \in LineWrites : w.y = r.y /\ start <= w.x /\ w.x < edge
          /\ start <= boundary /\ boundary <= edge

\* the label "a" and ratio 2/3 over 4 columns with a bar style of fg Yellow
\* and no bg: start 2, boundary 3; column 2 gets fg Yellow, column 3 keeps
\* its colours, and neither has its bg set
C18_Witness ==
  /\ status = "rendered"
  /\ gauge.kind = "LineGauge" /\ gauge.label = <<"a">> /\ gauge.ratio = Rat(2, 3)
  /\ gauge.gauge_style.fg = "Yellow" /\ gauge.gauge_style.bg = None
  /\ frame.gauge_area = [x |-> 0, y |-> 0, width |-> 4, height |-> 1]
  /\ {<<w.x, w.y, w.kind, w.fg, w.bg>> : w \in LineWrites}
       = {<<2, 0, "line_filled", "Yellow", None>>, <<3, 0, "line_unfilled", None, None>>}

\* C19: Gauge writes stay in bounds: for every working rectangle with at
\* least one column and one row, every ratio in [0, 1] and both precision
\* modes, Gauge::render does not fail and every cell it gives a fill,
\* fractional or label glyph lies inside the working rectangle; the column
\* of the fractional glyph, left + floor(width * ratio), is left of the
\* right edge whenever ratio < 1 and is never one of the filled columns.
C19_GaugeWritesInBounds ==
  (Rendered /\ gauge.kind = "Gauge"
     /\ frame.gauge_area.width >= 1 /\ frame.gauge_area.height >= 1) =>
    LET r == frame.gauge_area
        boundary == r.x + (r.width * gauge.ratio.n) \div gauge.ratio.d
    IN  /\ ~frame.panicked /\ status = "rendered"
        /\ \A w \in GaugeGlyphs : InRect(w, r)
        /\ lt(gauge.ratio, from_u16(1)) => boundary < r.x + r.width
        /\ \A f \in FractionWrites :
             /\ f.x = boundary
             /\ f.x \notin FilledColumns(f.y)
             /\ lt(gauge.ratio, from_u16(1))

\* ratio 7/8 with sub-cell precision over the 4 columns and 2 rows next to
\* nothing on the right: 3 filled columns, the half block in the last
\* column, the label "88%" on row 1, all inside the rectangle
C19_Witness ==
  /\ status = "rendered"
  /\ gauge.kind = "Gauge" /\ gauge.use_unicode /\ gauge.ratio = Rat(7, 8)
  /\ gauge.label = NoLabel
  /\ frame.gauge_area = [x |-> 0, y |-> 0, width |-> 4, height |-> 2]
  /\ {<<w.x, w.y, w.symbol>> : w \in FractionWrites} = {<<3, 0, "HALF">>, <<3, 1, "HALF">>}
  /\ {<<w.x, w.y, w.symbol>> : w \in LabelWrites}
       = {<<0, 1, "8">>, <<1, 1, "8">>, <<2, 1, "%">>}
  /\ Cardinality(FilledWrites) = 6
  /\ \A w \in GaugeGlyphs : InRect(w, frame.gauge_area)

\* the column the fill of a Gauge frame ends at, read off its top row
GaugeBoundary(f) ==
  left(f.gauge_area) +
    Cardinality({w.x : w \in {v \in f.writes : v.kind \in {"fill", "blank"}
                                               /\ v.y = top(f.gauge_area)}})

\* the eighths of a column a Gauge frame shows on its top row
RenderedEighths(f) ==
  LET fractions == {w \in f.writes : w.kind = "fraction" /\ w.y = top(f.gauge_area)}
  IN  8 * (GaugeBoundary(f) - left(f.gauge_area)) +
        (IF fractions = {} THEN 0 ELSE Eighths((CHOOSE w \in fractions : TRUE).symbol))

\* the column the filled part of a LineGauge frame ends at: start, one past
\* the label, plus the filled segments
LineBoundary(f) ==
  left(f.gauge_area) + Cardinality({w \in f.writes : w.kind = "label"}) + 1 +
    Cardinality({w \in f.writes : w.kind = "line_filled"})

\* the frame of the same widget with another ratio in the same area
FrameAt(r2) ==
  IF gauge.kind = "Gauge"
    THEN gauge_render([gauge EXCEPT !.ratio = r2], frame.area)
    ELSE line_gauge_render([gauge EXCEPT !.ratio = r2], frame.area)

\* C20: fill is monotone in the ratio: for a fixed area and precision mode
\* and ratios r1 <= r2 in [0, 1], the fill boundary column of Gauge::render
\* for r1 is at most that for r2, in sub-cell mode the eighths rendered
\* (8 * full columns + the eighths of the fractional glyph) for r1 are at
\* most those for r2, and the boundary column of LineGauge::render for r1
\* is at most that for r2.
C20_FillMonotone ==
  (Rendered /\ frame.gauge_area.height >= 1) =>
    \A r2 \in RenderRatios :
      le(gauge.ratio, r2) =>
        LET other == FrameAt(r2)
        IN  /\ gauge.kind = "Gauge" => GaugeBoundary(frame) <= GaugeBoundary(other)
            /\ (gauge.kind = "Gauge" /\ gauge.use_unicode) =>
                 RenderedEighths(frame) <= RenderedEighths(other)
            /\ gauge.kind = "LineGauge" => LineBoundary(frame) <= LineBoundary(other)

\* ratio 7/16 with sub-cell precision over 4 columns: one full column and
\* the three-quarters glyph, 14 eighths; the same gauge with ratio 1/2 has
\* two full columns and 16 eighths
C20_Witness ==
  /\ status = "rendered"
  /\ gauge.kind = "Gauge" /\ gauge.use_unicode /\ gauge.ratio = Rat(7, 16)
  /\ frame.gauge_area = [x |-> 0, y |-> 0, width |-> 4, height |-> 2]
  /\ GaugeBoundary(frame) = 1 /\ RenderedEighths(frame) = 14
  /\ GaugeBoundary(FrameAt(Rat(1, 2))) = 2 /\ RenderedEighths(FrameAt(Rat(1, 2))) = 16

====
